---- MODULE Spec2Model ----
(***************************************************************************)
(* Plan execution engine of run.py: instrument discovery, channel          *)
(* selection, plan assignment, session load, sequential connection, one    *)
(* concurrent run_channel task per assignment (asyncio.gather), disconnect *)
(* and session save.  A plan step is expanded into runs exactly as the     *)
(* nested loops of run_channel do it.                                      *)
(***************************************************************************)
EXTENDS Integers, Sequences, FiniteSets, TLC

VARIABLES
    devices,       \* instruments attached to the host (environment)
    plan_paths,    \* the plans found in plans/*.json (environment)
    ch_input,      \* tokens the operator types at the channel prompt
    session_file,  \* the .pssession file on disk
    mainpc,        \* position of main()
    available,     \* result of discover_instruments()
    channels,      \* main: the filtered channel list
    assignments,   \* main: list of {ch, plan}
    existing,      \* main: records returned by the session load
    all_meas,      \* main: all_measurements, shared by every run_channel
    managers,      \* connect_channels: dict ch -> manager
    connected,     \* managers whose connect() completed
    disconnected,  \* managers on which disconnect() was issued
    tasks,         \* one run_channel coroutine per assignment
    saved,         \* number of save_session_file calls
    new_data_callback,  \* per manager: the run whose writer the callback feeds
    batches,       \* sample batches the instruments still deliver
    now,           \* datetime.now(), in seconds since main started
    ticks          \* seconds the clock still advances during the runs

vars == <<devices, plan_paths, ch_input, session_file, mainpc, available,
          channels, assignments, existing, all_meas, managers, connected,
          disconnected, tasks, saved, new_data_callback, batches, now,
          ticks>>

(***************************************************************************)
(* Bounds of the model.                                                    *)
(***************************************************************************)
NumAvailable == 2     \* most instruments discovery reports
MaxSelect    == 2     \* most tokens typed at the channel prompt
MaxReps      == 2     \* largest repeats of a catalogue step
MaxVals      == 2     \* longest sweep_values of a catalogue step
MaxBatches   == 1     \* most sample batches delivered in one execution
MaxTicks     == 1     \* most seconds that go by while the tasks run

(***************************************************************************)
(* Python values.                                                          *)
(***************************************************************************)
None == "None"

\* d.get(k) is truthy (the model keeps booleans under such keys)
Truthy(d, k) == k \in DOMAIN d /\ d[k] = TRUE

\* dict with d[k] = v
DictSet(d, k, v) == [x \in DOMAIN d \cup {k} |-> IF x = k THEN v ELSE d[x]]

\* {k: v for k, v in d.items() if k != key}
DictWithout(d, key) == [x \in DOMAIN d \ {key} |-> d[x]]

\* seq[i] of Python for a list of length n: the 1-based position, 0 when
\* the index raises IndexError
PyIndex(n, i) ==
    IF 0 <= i /\ i < n THEN i + 1
    ELSE IF i < 0 /\ -n <= i THEN n + i + 1
    ELSE 0

\* str.isdigit() of a token holding an integer: a sign is not a digit
IsDigit(tok) == tok >= 0

\* parse_int_list
parse_int_list(s) == SelectSeq(s, IsDigit)

\* m.lower()
Lower(m) ==
    CASE m = "LSV" -> "lsv"
      [] m = "CV"  -> "cv"
      [] m = "SWV" -> "swv"
      [] m = "CA"  -> "ca"
      [] m = "MSA" -> "msa"
      [] m = "EIS" -> "eis"
      [] OTHER     -> m

\* pspymethods.multi_step_amperometry_level(**lvl)
multi_step_amperometry_level(lvl) == <<"MSALevel", lvl.level, lvl.duration>>

Materialize(raw) == [j \in 1..Len(raw) |-> multi_step_amperometry_level(raw[j])]

(***************************************************************************)
(* Step expansion: the loops of run_channel (run.py 140-195).  A run is    *)
(* what run_one receives.  StepRuns gives the runs of one step in loop     *)
(* order and the exception that ends the step, if any.                     *)
(***************************************************************************)
Get(d, k, default) == IF k \in DOMAIN d THEN d[k] ELSE default

\* range(reps): repeat indices counted from zero
RepRangeFromZero(reps) == [i \in 1..(IF reps < 1 THEN 0 ELSE reps) |-> i - 1]

\* range(1, reps + 1), empty when reps < 1
RepRange(reps) == [i \in 1..(IF reps < 1 THEN 0 ELSE reps) |-> i]

Run(idx, m, title, params, conc, i) ==
    [step |-> idx, method |-> m, title |-> title, params |-> params,
     conc |-> conc, rep |-> i]

NoRuns(err) == [runs |-> <<>>, err |-> err]

\* params of a single step (run.py 147-157)
SingleParams(m, step) ==
    IF m = "MSA"
    THEN LET raw == step["params"]["levels"]
         IN  DictSet(DictSet(DictWithout(step["params"], "levels"),
                             "_raw_levels", raw),
                     "levels", Materialize(raw))
    ELSE step["params"]

SingleTitle(m, idx, i) ==
    Lower(m) \o "_step" \o ToString(idx) \o "_run" \o ToString(i)

\* run.py 146-162
SingleRuns(idx, step) ==
    LET m    == step["method"]
        reps == Get(step, "repeats", 1)
        conc == Get(step, "concentration", None)
    IN  IF "params" \notin DOMAIN step
           \/ (m = "MSA" /\ "levels" \notin DOMAIN step["params"])
        THEN NoRuns("KeyError")
        ELSE LET params == SingleParams(m, step)
                 rr     == RepRange(reps)
             IN  [runs |-> [j \in 1..Len(rr) |->
                              Run(idx, m, SingleTitle(m, idx, rr[j]),
                                  params, conc, rr[j])],
                  err  |-> "none"]

\* the copy of base is made, the swept value never stored in it
SweepParamsUnset(base, sweep_param, val) == base

\* params = dict(base); params[sweep_param] = val   (run.py 188-189)
SweepParams(base, sweep_param, val) == DictSet(base, sweep_param, val)

SweepTitle(m, sweep_param, val, i) ==
    Lower(m) \o "_" \o sweep_param \o ToString(val) \o "_run" \o ToString(i)

\* the runs of one sweep value (run.py 190-193)
SweepValueRuns(idx, m, base, sweep_param, val, reps, conc) ==
    LET params == SweepParams(base, sweep_param, val)
        rr     == RepRange(reps)
    IN  [j \in 1..Len(rr) |->
           Run(idx, m, SweepTitle(m, sweep_param, val, rr[j]),
               params, conc, rr[j])]

\* run.py 185-193
SweepRuns(idx, step) ==
    LET m    == step["method"]
        reps == Get(step, "repeats", 1)
        conc == Get(step, "concentration", None)
        base == step["base_params"]
    IN  IF "sweep_param" \notin DOMAIN step \/ "sweep_values" \notin DOMAIN step
        THEN NoRuns("KeyError")
        ELSE LET vals == step["sweep_values"]
                 RECURSIVE F(_)
                 F(v) == IF v > Len(vals) THEN <<>>
                         ELSE SweepValueRuns(idx, m, base, step["sweep_param"],
                                             vals[v], reps, conc) \o F(v + 1)
             IN  [runs |-> F(1), err |-> "none"]

\* the swept value written to both fields of raw[lvl_idx], whatever the flags
LevelRawBoth(levels, p, sp, sd, val) ==
    [j \in 1..Len(levels) |->
        IF j = p THEN [level |-> val, duration |-> val] ELSE levels[j]]

\* raw = [lvl.copy() for lvl in base["levels"]] with the swept field(s) of
\* raw[lvl_idx] overwritten (run.py 169-173); p is the position PyIndex gives
LevelRaw(levels, p, sp, sd, val) ==
    [j \in 1..Len(levels) |->
        IF j = p
        THEN [level    |-> IF sp THEN val ELSE levels[j].level,
              duration |-> IF sd THEN val ELSE levels[j].duration]
        ELSE levels[j]]

\* run.py 174-180
LevelParams(base, raw) ==
    DictSet(DictSet(DictWithout(base, "levels"), "_raw_levels", raw),
            "levels", Materialize(raw))

LevelTitle(m, lvl_idx, val, i) ==
    Lower(m) \o "_lvl" \o ToString(lvl_idx + 1) \o "_" \o ToString(val)
             \o "_run" \o ToString(i)

\* the runs of one value of a level sweep (run.py 169-184)
LevelValueRuns(idx, m, base, lvl_idx, sp, sd, val, reps, conc) ==
    LET p      == PyIndex(Len(base["levels"]), lvl_idx)
        raw    == LevelRaw(base["levels"], p, sp, sd, val)
        params == LevelParams(base, raw)
        rr     == RepRange(reps)
    IN  [j \in 1..Len(rr) |->
           Run(idx, m, LevelTitle(m, lvl_idx, val, rr[j]),
               params, conc, rr[j])]

\* run.py 166-184
LevelSweepRuns(idx, step) ==
    LET m    == step["method"]
        reps == Get(step, "repeats", 1)
        conc == Get(step, "concentration", None)
        base == step["base_params"]
        sp   == Truthy(step, "sweep_potential")
        sd   == Truthy(step, "sweep_duration")
    IN  IF "level_index" \notin DOMAIN step \/ "sweep_values" \notin DOMAIN step
        THEN NoRuns("KeyError")
        ELSE IF step["sweep_values"] = <<>> THEN NoRuns("none")
        ELSE IF "levels" \notin DOMAIN base THEN NoRuns("KeyError")
        ELSE IF (sp \/ sd)
                /\ PyIndex(Len(base["levels"]), step["level_index"]) = 0
        THEN NoRuns("IndexError")
        ELSE LET vals == step["sweep_values"]
                 RECURSIVE F(_)
                 F(v) == IF v > Len(vals) THEN <<>>
                         ELSE LevelValueRuns(idx, m, base, step["level_index"],
                                             sp, sd, vals[v], reps, conc)
                              \o F(v + 1)
             IN  [runs |-> F(1), err |-> "none"]

\* which branch of run_channel a step takes (run.py 146, 164, 166, 194)
\* a dispatch whose first branch takes every type but sweep
BranchLoose(step) ==
    LET typ == Get(step, "type", "single")
    IN  IF typ # "sweep" THEN "single"
        ELSE IF "base_params" \notin DOMAIN step THEN "nobase"
        ELSE IF step["method"] = "MSA" /\ Truthy(step, "modify_levels")
        THEN "level" ELSE "sweep"

Branch(step) ==
    LET typ == Get(step, "type", "single")
    IN  IF typ = "single" THEN "single"
        ELSE IF typ = "sweep"
        THEN IF "base_params" \notin DOMAIN step THEN "nobase"
             ELSE IF step["method"] = "MSA" /\ Truthy(step, "modify_levels")
             THEN "level" ELSE "sweep"
        ELSE "skip"

\* one iteration of the loop over plan["sequence"]
\* an expansion that refuses a sweep without values and a type it does not
\* know, ending run_channel there
StepRunsStrict(idx, step) ==
    CASE Branch(step) = "single" -> SingleRuns(idx, step)
      [] Branch(step) = "level"  ->
            IF Get(step, "sweep_values", <<0>>) = <<>> THEN NoRuns("ValueError")
            ELSE LevelSweepRuns(idx, step)
      [] Branch(step) = "sweep"  ->
            IF Get(step, "sweep_values", <<0>>) = <<>> THEN NoRuns("ValueError")
            ELSE SweepRuns(idx, step)
      [] Branch(step) = "nobase" -> NoRuns("KeyError")
      [] OTHER                   -> NoRuns("ValueError")

StepRuns(idx, step) ==
    CASE Branch(step) = "single" -> SingleRuns(idx, step)
      [] Branch(step) = "level"  -> LevelSweepRuns(idx, step)
      [] Branch(step) = "sweep"  -> SweepRuns(idx, step)
      [] Branch(step) = "nobase" -> NoRuns("KeyError")
      [] OTHER                   -> NoRuns("none")

\* run_channel taking the steps from the last one to the first
PlanRunsBackwards(plan) ==
    LET seq == plan["sequence"]
        RECURSIVE F(_)
        F(s) == IF s < 1 THEN NoRuns("none")
                ELSE LET here == StepRuns(s, seq[s])
                     IN  IF here.err # "none" THEN here
                         ELSE LET rest == F(s - 1)
                              IN  [runs |-> here.runs \o rest.runs,
                                   err  |-> rest.err]
    IN  F(Len(seq))

\* run_channel as a whole: the runs in execution order, up to the first
\* exception, which leaves run_channel
PlanRuns(plan) ==
    LET seq == plan["sequence"]
        RECURSIVE F(_)
        F(s) == IF s > Len(seq) THEN NoRuns("none")
                ELSE LET here == StepRuns(s, seq[s])
                     IN  IF here.err # "none" THEN here
                         ELSE LET rest == F(s + 1)
                              IN  [runs |-> here.runs \o rest.runs,
                                   err  |-> rest.err]
    IN F(1)

(***************************************************************************)
(* The environment the orchestrator is started in.                         *)
(***************************************************************************)
LsvParams == [begin_potential |-> 0, end_potential |-> 1, scanrate |-> 3]
CvParams  == [begin_potential |-> 0, n_scans |-> 2, scanrate |-> 3]
MsaLevels == <<[level |-> 1, duration |-> 5], [level |-> 2, duration |-> 6]>>
MsaParams == [equilibration_time |-> 0, levels |-> MsaLevels, n_cycles |-> 1]

\* an optional key of a JSON object: s is {} (absent) or {v}
Opt(k, s) == [x \in {y \in {k} : s # {}} |-> CHOOSE v \in s : TRUE]

SweepVals == {7, 8}
ValSeqs   == UNION {[1..n -> SweepVals] : n \in 0..MaxVals}
RepsOpts  == {{}} \cup {{r} : r \in -1..MaxReps}
LevelIdxs == {-(Len(MsaLevels) + 1)} \cup (-1..Len(MsaLevels))

SingleSteps ==
    { [method |-> mp[1], params |-> mp[2]] @@ Opt("type", ty) @@ Opt("repeats", r) :
        mp \in {<<"CV", CvParams>>, <<"MSA", MsaParams>>},
        ty \in {{}, {"single"}}, r \in RepsOpts }

GenericSweepSteps ==
    { [method |-> "LSV", type |-> "sweep", base_params |-> LsvParams,
       sweep_values |-> vs] @@ Opt("sweep_param", sp) @@ Opt("repeats", r) :
        vs \in ValSeqs, sp \in {{}, {"scanrate"}, {"amplitude"}}, r \in RepsOpts }

LevelSweepSteps ==
    { [method |-> "MSA", type |-> "sweep", base_params |-> MsaParams,
       level_index |-> li, sweep_potential |-> fl[1], sweep_duration |-> fl[2],
       sweep_values |-> vs] @@ Opt("modify_levels", ml) @@ Opt("repeats", r) :
        li \in LevelIdxs, fl \in BOOLEAN \X BOOLEAN, vs \in ValSeqs,
        ml \in {{}, {TRUE}}, r \in RepsOpts }

OtherSteps ==
    { [method |-> "CV", type |-> "loop", params |-> CvParams],
      [method |-> "EIS", type |-> "single", params |-> CvParams],
      [method |-> "MSA", type |-> "sweep", base_params |-> MsaParams,
       modify_levels |-> TRUE, level_index |-> 0,
       sweep_potential |-> FALSE, sweep_duration |-> FALSE] }

Plan(name, seq) == [name |-> name, sequence |-> seq]

CatalogueSteps ==
    SingleSteps \cup GenericSweepSteps \cup LevelSweepSteps \cup OtherSteps

StepBefore == [method |-> "CV", type |-> "single", params |-> CvParams]
StepAfter  == [method |-> "LSV", type |-> "sweep", base_params |-> LsvParams,
               sweep_param |-> "scanrate", sweep_values |-> <<7>>,
               repeats |-> 1]

\* every catalogue step as a plan of its own, and between two other steps
CataloguePlans ==
    { Plan("one", <<st>>) : st \in CatalogueSteps }
    \cup { Plan("three", <<StepBefore, st, StepAfter>>) : st \in CatalogueSteps }

\* the plans of the concurrent scenarios: one and two runs
PlanShort == Plan("short", <<[method |-> "CV", type |-> "single",
                              params |-> CvParams, repeats |-> 1]>>)
PlanLong  == Plan("long", <<[method |-> "LSV", type |-> "sweep",
                             base_params |-> LsvParams,
                             sweep_param |-> "scanrate",
                             sweep_values |-> <<7, 8>>, repeats |-> 1]>>)
OrchestratorPlans == <<PlanShort, PlanLong>>

Tokens        == -1..NumAvailable
ChannelInputs == UNION {[1..n -> Tokens] : n \in 0..MaxSelect}

Handle(t, k) == [task |-> t, run |-> k]
OldHandle    == Handle(0, 1)
NoFile       == [exists |-> FALSE, records |-> <<>>]
SessionFiles == {NoFile, [exists |-> TRUE, records |-> <<OldHandle>>]}

Concs == {None}

(***************************************************************************)
(* main(), up to the start of the channel tasks.                           *)
(***************************************************************************)
Range(f) == {f[x] : x \in DOMAIN f}

InitMain ==
    /\ mainpc = "discover"
    /\ available = None
    /\ channels = <<>>
    /\ assignments = <<>>
    /\ existing = <<>>
    /\ all_meas = <<>>
    /\ managers = <<>>
    /\ connected = {}
    /\ disconnected = {}
    /\ tasks = <<>>
    /\ saved = 0
    /\ new_data_callback = <<>>
    /\ now = 0

\* instruments that stream samples while they measure: one channel, two
\* channels, and one channel named twice
StreamInputs == {<<0>>, <<0, 1>>, <<0, 0>>}

InitStream ==
    /\ devices = NumAvailable
    /\ plan_paths = OrchestratorPlans
    /\ ch_input \in StreamInputs
    /\ session_file = NoFile
    /\ batches \in 1..MaxBatches
    /\ ticks = 0
    /\ InitMain

\* a plan whose two steps sweep the same parameter over the same value
PlanTwice == Plan("twice", <<[method |-> "LSV", type |-> "sweep",
                              base_params |-> LsvParams,
                              sweep_param |-> "scanrate",
                              sweep_values |-> <<7>>, repeats |-> 1],
                             [method |-> "LSV", type |-> "sweep",
                              base_params |-> LsvParams,
                              sweep_param |-> "scanrate",
                              sweep_values |-> <<7>>, repeats |-> 1]>>)

\* one channel, with a clock that may advance while its task runs
InitClock ==
    /\ devices = 1
    /\ plan_paths = <<PlanLong, PlanTwice>>
    /\ ch_input = <<0>>
    /\ session_file = NoFile
    /\ batches = 0
    /\ ticks = MaxTicks
    /\ InitMain

(***************************************************************************)
(* The plan builder: build_step as a function of the answers it is given.  *)
(***************************************************************************)
SwvParams == [begin_potential |-> 0, amplitude |-> 1, frequency |-> 3]
CaParams  == [e |-> 0, run_time |-> 1, interval_time |-> 3]

\* the methods choose_method offers (plan_builder.py 29)
Methods == {"LSV", "CV", "SWV", "CA", "MSA"}

\* frange(start, end, step) for a step above zero: start, start + step, ...
\* while not above end (plan_builder.py 22-26)
RECURSIVE frange(_, _, _)
frange(start, end, step) ==
    IF start > end THEN <<>>
    ELSE <<start>> \o frange(start + step, end, step)

\* get_params(method): the parameters of the method as answered
\* (plan_builder.py 39-83)
get_params(method) ==
    CASE method = "LSV" -> LsvParams
      [] method = "CV"  -> CvParams
      [] method = "SWV" -> SwvParams
      [] method = "CA"  -> CaParams
      [] OTHER          -> MsaParams

\* [float(v) for v in vals.split(",") if v.strip()]: a token is <<>> when
\* blank and <<x>> when it is the text of the number x
ParseValues(toks) ==
    LET kept == SelectSeq(toks, LAMBDA v : v # <<>>)
    IN  [i \in 1..Len(kept) |-> kept[i][1]]

\* build_step  (plan_builder.py 85-123); a range is <<start, end, step>>
build_step(a) ==
    LET method == a.method
        step0  == [method |-> method]
        body   ==
          IF a.sweep
          THEN LET s1 == DictSet(DictSet(step0, "type", "sweep"),
                                 "base_params", get_params(method))
               IN  IF method = "MSA"
                   THEN LET s2 == DictSet(DictSet(s1, "modify_levels", TRUE),
                                          "level_index", a.level - 1)
                            s3 == DictSet(DictSet(s2, "sweep_potential", a.sp),
                                          "sweep_duration", a.sd)
                            s4 == IF a.sp
                                  THEN DictSet(s3, "sweep_values",
                                               frange(a.pot[1], a.pot[2], a.pot[3]))
                                  ELSE s3
                        IN  IF a.sd
                            THEN DictSet(s4, "sweep_values",
                                         frange(a.dur[1], a.dur[2], a.dur[3]))
                            ELSE s4
                   ELSE DictSet(DictSet(s1, "sweep_param", a.sweep_param),
                                "sweep_values", ParseValues(a.vals))
          ELSE DictSet(DictSet(step0, "type", "single"),
                       "params", get_params(method))
    IN  DictSet(body, "repeats", a.repeats)

\* the answers of one pass through build_step: only the questions on the
\* path taken are asked
Ranges      == {<<7, 8, 1>>, <<8, 8, 1>>, <<8, 7, 1>>}
ValueTokens == {<< <<7>> >>, << <<7>>, <<>>, <<8>> >>, << <<>> >>}
RepeatAnswers == {1, MaxReps}

SingleAnswers ==
    [method : Methods, sweep : {FALSE}, repeats : RepeatAnswers]

SweepAnswers ==
    [method : Methods \ {"MSA"}, sweep : {TRUE}, sweep_param : {"scanrate"},
     vals : ValueTokens, repeats : RepeatAnswers]

LevelAnswers ==
    [method : {"MSA"}, sweep : {TRUE}, level : 1..Len(MsaLevels),
     sp : BOOLEAN, sd : BOOLEAN, pot : Ranges, dur : {<<8, 8, 1>>},
     repeats : RepeatAnswers]

Answers == SingleAnswers \cup SweepAnswers \cup LevelAnswers

\* the plans edit_plan saves after one step was added to an empty plan
\* (plan_builder.py 145-146, 184-186, 216-217)
BuiltPlans == { Plan("built", <<build_step(a)>>) : a \in Answers }

\* one channel that is given a plan of the builder
InitBuilder ==
    /\ devices = 1
    /\ plan_paths \in {<<p>> : p \in BuiltPlans}
    /\ ch_input = <<0>>
    /\ session_file = NoFile
    /\ batches = 0
    /\ ticks = 0
    /\ InitMain

\* a plan of the catalogue that names a method METHOD_FUNC_MAP does not have
PlanUnknown == Plan("three", <<StepBefore,
                               [method |-> "EIS", type |-> "single",
                                params |-> CvParams],
                               StepAfter>>)

\* one channel that is given that plan
InitUnknown ==
    /\ devices = 1
    /\ plan_paths = <<PlanUnknown>>
    /\ ch_input = <<0>>
    /\ session_file = NoFile
    /\ batches = 0
    /\ ticks = 0
    /\ InitMain

Init ==
    \/ /\ devices \in 0..NumAvailable
       /\ plan_paths \in {<<>>, OrchestratorPlans}
       /\ ch_input \in ChannelInputs
       /\ session_file \in SessionFiles
       /\ batches = 0
       /\ ticks = 0
       /\ InitMain
    \/ InitStream
    \/ InitClock

InitExpand ==
    \/ /\ devices = 1
       /\ plan_paths \in {<<p>> : p \in CataloguePlans}
       /\ ch_input = <<0>>
       /\ session_file \in SessionFiles
       /\ batches = 0
       /\ ticks = 0
       /\ InitMain
    \/ InitStream
    \/ InitClock

\* one channel that is given a catalogue step between two other steps
InitSequence ==
    \/ /\ devices = 1
       /\ plan_paths \in {<<Plan("three", <<StepBefore, st, StepAfter>>)>> :
                             st \in CatalogueSteps}
       /\ ch_input = <<0>>
       /\ session_file = NoFile
       /\ batches = 0
       /\ ticks = 0
       /\ InitMain
    \/ InitStream
    \/ InitClock

\* discover_instruments returns the list (run.py 48-56, 200-202)
DiscoverOk ==
    /\ mainpc = "discover"
    /\ IF devices = 0
       THEN mainpc' = "returned" /\ UNCHANGED available
       ELSE mainpc' = "select" /\ available' = devices
    /\ UNCHANGED <<devices, plan_paths, ch_input, session_file, channels,
                   assignments, existing, all_meas, managers, connected,
                   disconnected, tasks, saved,
                   new_data_callback, batches,
                   now, ticks>>

\* a main that goes on to the connections after the timeout
DiscoverTimeoutIgnored ==
    /\ mainpc = "discover"
    /\ mainpc' = "connect"
    /\ UNCHANGED <<devices, plan_paths, ch_input, session_file, available,
                   channels, assignments, existing, all_meas, managers,
                   connected, disconnected, tasks, saved,
                   new_data_callback, batches,
                   now, ticks>>

\* asyncio.wait_for times out (run.py 57-59, 201-202)
DiscoverTimeout ==
    /\ mainpc = "discover"
    /\ mainpc' = "returned"
    /\ UNCHANGED <<devices, plan_paths, ch_input, session_file, available,
                   channels, assignments, existing, all_meas, managers,
                   connected, disconnected, tasks, saved,
                   new_data_callback, batches,
                   now, ticks>>

\* channels = [ch for ch in channels if 0 <= ch < len(available)]
ValidChannels(chs, n) == SelectSeq(chs, LAMBDA ch : 0 <= ch /\ ch < n)

\* run.py 215-231
SelectChannels ==
    /\ mainpc = "select"
    /\ LET chs == ValidChannels(parse_int_list(ch_input), available)
       IN  /\ channels' = chs
           /\ mainpc' = IF chs = <<>> \/ plan_paths = <<>>
                        THEN "returned" ELSE "assign"
    /\ ch_input' = <<>>
    /\ UNCHANGED <<devices, plan_paths, session_file, available, assignments,
                   existing, all_meas, managers, connected, disconnected,
                   tasks, saved,
                   new_data_callback, batches,
                   now, ticks>>

\* for step in plan_data["sequence"]: step["concentration"] = conc
TagPlan(plan, conc) ==
    [plan EXCEPT !["sequence"] =
        [j \in 1..Len(plan["sequence"]) |->
            DictSet(plan["sequence"][j], "concentration", conc)]]

\* one iteration of the loop over channels (run.py 251-263, 295-351)
AssignPlan(idx, conc) ==
    /\ mainpc = "assign"
    /\ Len(assignments) < Len(channels)
    /\ assignments' = Append(assignments,
                             [ch   |-> channels[Len(assignments) + 1],
                              plan |-> TagPlan(plan_paths[idx + 1], conc)])
    /\ UNCHANGED <<devices, plan_paths, ch_input, session_file, mainpc,
                   available, channels, existing, all_meas, managers,
                   connected, disconnected, tasks, saved,
                   new_data_callback, batches,
                   now, ticks>>

\* the session always started empty, the file on disk never read
LoadSessionNone(f) == <<>>

\* load_session_file(...) or [] when the file exists, else [] (run.py 354-359)
LoadSession(f) == IF f.exists THEN f.records ELSE <<>>

\* run.py 353-360
LoadExisting ==
    /\ mainpc = "assign"
    /\ Len(assignments) = Len(channels)
    /\ existing' = LoadSession(session_file)
    /\ all_meas' = LoadSession(session_file)
    /\ mainpc' = "connect"
    /\ UNCHANGED <<devices, plan_paths, ch_input, session_file, available,
                   channels, assignments, managers, connected, disconnected,
                   tasks, saved,
                   new_data_callback, batches,
                   now, ticks>>

\* one iteration of connect_channels: the manager of the i-th entry of
\* channels is manager i (run.py 82-87)
ConnectNext ==
    /\ mainpc = "connect"
    /\ Cardinality(connected) < Len(channels)
    /\ LET i == Cardinality(connected) + 1
       IN  /\ managers' = DictSet(managers, channels[i], i)
           /\ connected' = connected \cup {i}
    /\ UNCHANGED <<devices, plan_paths, ch_input, session_file, mainpc,
                   available, channels, assignments, existing, all_meas,
                   disconnected, tasks, saved,
                   new_data_callback, batches,
                   now, ticks>>

\* mgr.connect raises: the exception leaves connect_channels and main
ConnectFail ==
    /\ mainpc = "connect"
    /\ Cardinality(connected) < Len(channels)
    /\ mainpc' = "connect_raised"
    /\ UNCHANGED <<devices, plan_paths, ch_input, session_file, available,
                   channels, assignments, existing, all_meas, managers,
                   connected, disconnected, tasks, saved,
                   new_data_callback, batches,
                   now, ticks>>

(***************************************************************************)
(* Objects.  The dicts and lists of a step are objects that the loops of   *)
(* run_channel and run_one may write to after a copy or through an alias.  *)
(* An object is named by an integer and a heap gives the content of every  *)
(* name; a copy yields the fresh name it is given.                         *)
(***************************************************************************)
\* the level dicts taken over as they are, no copy made
LvlAlias(orig, fresh) == orig

\* lvl.copy()  (run.py 168)
LvlCopy(orig, fresh) == fresh

\* dict(base)  (run.py 187)
DictOf(orig, fresh) == fresh

\* params.copy()  (run.py 122)
ParamsCopy(orig, fresh) == fresh

\* the name of the copy of level j made for the w-th sweep value
RawName(step, w, j) ==
    LvlCopy(j, Len(step["base_params"]["levels"]) * w + j)

\* the level dicts after the params of the first v values of a level sweep
\* were built: names 1..n are the dicts of base_params["levels"]
\* (run.py 167-173)
RECURSIVE LevelHeap(_, _)
LevelHeap(step, v) ==
    LET lv == step["base_params"]["levels"]
        n  == Len(lv)
    IN  IF v = 0 THEN [j \in 1..n |-> lv[j]]
        ELSE LET h   == LevelHeap(step, v - 1)
                 new == {RawName(step, v, j) : j \in 1..n} \ DOMAIN h
                 hc  == [a \in DOMAIN h \cup new |->
                           IF a \in DOMAIN h THEN h[a] ELSE h[a - n * v]]
                 p   == PyIndex(n, step["level_index"])
                 val == step["sweep_values"][v]
                 h1  == IF Truthy(step, "sweep_potential")
                        THEN [hc EXCEPT ![RawName(step, v, p)].level = val]
                        ELSE hc
             IN  IF Truthy(step, "sweep_duration")
                 THEN [h1 EXCEPT ![RawName(step, v, p)].duration = val]
                 ELSE h1

\* the dicts after the params of the first v values of a generic sweep were
\* built: name 1 is base_params, the copy for the w-th value is offered the
\* name w + 1  (run.py 187-189)
RECURSIVE SweepHeap(_, _)
SweepHeap(step, v) ==
    IF v = 0 THEN <<step["base_params"]>>
    ELSE LET h  == SweepHeap(step, v - 1)
             a  == DictOf(1, v + 1)
             hc == IF a \in DOMAIN h THEN h ELSE Append(h, h[1])
         IN  [hc EXCEPT ![a] = DictSet(@, step["sweep_param"],
                                       step["sweep_values"][v])]

\* a step as the objects have it once the params of its first v sweep
\* values were built (a step that raised built none)
StepNow(step, v) ==
    IF v = 0 THEN step
    ELSE IF Branch(step) = "level"
    THEN [step EXCEPT !["base_params"] =
            DictSet(@, "levels",
                    [j \in 1..Len(@["levels"]) |-> LevelHeap(step, v)[j]])]
    ELSE IF Branch(step) = "sweep"
    THEN [step EXCEPT !["base_params"] = SweepHeap(step, v)[1]]
    ELSE step

\* the step has what its sweep branch reads before it writes a value: a
\* step without it raises before the params of any value are built
\* (run.py 165-173, 186-188)
HasSweepFields(step) ==
    /\ Branch(step) = "sweep" =>
          "sweep_param" \in DOMAIN step /\ "sweep_values" \in DOMAIN step
    /\ Branch(step) = "level" =>
          /\ "level_index" \in DOMAIN step
          /\ "sweep_values" \in DOMAIN step
          /\ "levels" \in DOMAIN step["base_params"]
          /\ (Truthy(step, "sweep_potential") \/ Truthy(step, "sweep_duration"))
                => PyIndex(Len(step["base_params"]["levels"]),
                           step["level_index"]) # 0

\* the number of sweep values of step s whose params were built when the
\* task has started n runs of the plan (all of them when it is over)
BuiltIn(runs, step, s, n, over) ==
    LET cnt == Cardinality({k \in 1..n : runs[k].step = s})
    IN  IF ~HasSweepFields(step) THEN 0
        ELSE IF over \/ (\E k \in 1..n : runs[k].step > s)
        THEN Len(Get(step, "sweep_values", <<>>))
        ELSE IF cnt = 0 THEN 0
        ELSE ((cnt - 1) \div Get(step, "repeats", 1)) + 1

\* the plan of a task as run_channel left its objects after n started runs
PlanNow(plan, runs, n, over) ==
    LET seq == plan["sequence"]
    IN  [plan EXCEPT !["sequence"] =
            [s \in 1..Len(seq) |->
                StepNow(seq[s], BuiltIn(runs, seq[s], s, n, over))]]

(***************************************************************************)
(* The channel tasks.  A task is suspended only in "await mgr.measure":    *)
(* what run_channel and run_one do between two measurements is one step.   *)
(* results[k] is the outcome of the k-th run the task started.             *)
(***************************************************************************)
Runs(t) == PlanRuns(assignments[t].plan)

SetLast(seq, v) == [seq EXCEPT ![Len(seq)] = v]

\* the methods METHOD_FUNC_MAP has a key for (run.py 21-27)
METHOD_FUNC_MAP == {"LSV", "CV", "SWV", "CA", "MSA"}

\* the header row of a data file (run.py 106-108)
Header(method_name) ==
    IF method_name = "MSA" THEN <<"Time (s)", "Current (uA)">>
    ELSE <<"Potential (V)", "Current (uA)">>

\* conc_tag = f"_c{conc}" if conc else ""  (run.py 98)
ConcTag(conc) == IF conc = None \/ conc = "" THEN "" ELSE "_c" \o conc

\* title.replace(" ", "_")  (run.py 99): the titles run_channel builds from
\* the methods, parameter names and values of the catalogue hold no space
Safe(title) == title

\* strftime("%Y-%m-%d_%H-%M-%S") of the clock: one string per second
Strftime(t) == "T" \o ToString(t)

\* fname of run.py 100 under the directory of the method (run.py 94-96);
\* the data file and the log of a run share it (run.py 101-102)
Fname(ch, method_name, conc, timestamp, title) ==
    method_name \o "/" \o "ch" \o ToString(ch) \o ConcTag(conc) \o "_"
        \o Strftime(timestamp) \o "_" \o Safe(title)

\* open(csvp, "w") and writer.writerow(header)  (run.py 104-109)
NewSink(method_name) ==
    [header |-> Header(method_name), rows |-> <<>>, open |-> TRUE,
     timestamp |-> now]

\* the with block of run_one is left: the data file is closed
CloseLast(files) ==
    IF files = <<>> THEN files
    ELSE [files EXCEPT ![Len(files)].open = FALSE]

\* run.py 120-123
SaveParams(method_name, params) ==
    IF method_name = "MSA" /\ "_raw_levels" \in DOMAIN params
    THEN DictSet(DictWithout(params, "_raw_levels"), "levels",
                 params["_raw_levels"])
    ELSE params

\* run_one after the measurement: name 1 is params, save_params is the
\* copy when the method is MSA, else params itself  (run.py 120-123)
LogHeap(method_name, params) ==
    IF method_name = "MSA" /\ "_raw_levels" \in DOMAIN params
    THEN LET a == ParamsCopy(1, 2)
             h == IF a = 1 THEN <<params>> ELSE <<params, params>>
         IN  [h EXCEPT ![a] = SaveParams(method_name, @)]
    ELSE <<params>>

\* the log of run.py 125-132 (the timestamp left out)
RunLog(ch, run) ==
    [channel |-> ch, method |-> run.method, title |-> run.title,
     parameters |-> SaveParams(run.method, run.params),
     concentration |-> run.conc]

\* run_channel carries on after its last completed run: run_one of the next
\* run up to the await (the open() of its data file may raise, and so does
\* METHOD_FUNC_MAP[method_name] for an unknown method, inside the with
\* block), or the end of run_channel, by return or by an exception of the
\* expansion.  files[k] and sent[k] belong to the k-th run that opened its
\* data file.
Begin(task, R, io) ==
    IF Len(task.results) < Len(R.runs)
    THEN LET run == R.runs[Len(task.results) + 1]
         IN  IF io
             THEN [task EXCEPT !.pc = "failed", !.exc = "OSError",
                               !.results = Append(@, "ioerror")]
             ELSE IF run.method \notin METHOD_FUNC_MAP
             THEN [task EXCEPT !.pc = "failed", !.exc = "KeyError",
                               !.results = Append(@, "nomethod"),
                               !.files = CloseLast(Append(@, NewSink(run.method))),
                               !.sent = Append(@, 0)]
             ELSE [task EXCEPT !.pc = "measuring", !.exc = "none",
                               !.results = Append(@, "inflight"),
                               !.files = Append(@, NewSink(run.method)),
                               !.sent = Append(@, 0)]
    ELSE IF R.err # "none"
         THEN [task EXCEPT !.pc = "failed", !.exc = R.err]
         ELSE [task EXCEPT !.pc = "finished", !.exc = "none"]

\* mgr.new_data_callback = lambda ... (run.py 110-112), when Begin gets
\* that far: the callback of the task's manager now feeds the new run
Register(t, task, R, io) ==
    IF Len(task.results) < Len(R.runs) /\ ~io
    THEN DictSet(new_data_callback, managers[assignments[t].ch],
                 <<t, Len(task.results) + 1>>)
    ELSE new_data_callback

NewTask == [pc |-> "created", results |-> <<>>, exc |-> "none",
            files |-> <<>>, sent |-> <<>>, logs |-> <<>>]

\* tasks.append(run_channel(...)) for every assignment, then gather
\* (run.py 363-371)
Gather ==
    /\ mainpc = "connect"
    /\ Cardinality(connected) = Len(channels)
    /\ tasks' = [t \in 1..Len(assignments) |-> NewTask]
    /\ mainpc' = "gather"
    /\ UNCHANGED <<devices, plan_paths, ch_input, session_file, available,
                   channels, assignments, existing, all_meas, managers,
                   connected, disconnected, saved,
                   new_data_callback, batches,
                   now, ticks>>

\* an event loop that starts a task only while no other task is awaiting a
\* measurement
TaskStartSerial(t, io) ==
    /\ mainpc = "gather"
    /\ tasks[t].pc = "created"
    /\ \A u \in DOMAIN tasks : tasks[u].pc # "measuring"
    /\ LET R == Runs(t) IN
       /\ io => Len(R.runs) > 0
       /\ tasks' = [tasks EXCEPT ![t] = Begin(@, R, io)]
       /\ new_data_callback' = Register(t, tasks[t], R, io)
       /\ assignments' = [assignments EXCEPT ![t].plan =
                            PlanNow(@, R.runs, Len(tasks'[t].results),
                                    tasks'[t].pc = "finished")]
    /\ UNCHANGED <<devices, plan_paths, ch_input, session_file, mainpc,
                   available, channels, existing, all_meas,
                   managers, connected, disconnected, saved, batches,
                   now, ticks>>

\* the event loop runs a task for the first time
TaskStart(t, io) ==
    /\ mainpc = "gather"
    /\ tasks[t].pc = "created"
    /\ LET R == Runs(t) IN
       /\ io => Len(R.runs) > 0
       /\ tasks' = [tasks EXCEPT ![t] = Begin(@, R, io)]
       /\ new_data_callback' = Register(t, tasks[t], R, io)
       /\ assignments' = [assignments EXCEPT ![t].plan =
                            PlanNow(@, R.runs, Len(tasks'[t].results),
                                    tasks'[t].pc = "finished")]
    /\ UNCHANGED <<devices, plan_paths, ch_input, session_file, mainpc,
                   available, channels, existing, all_meas,
                   managers, connected, disconnected, saved, batches,
                   now, ticks>>

\* the device calls mgr.new_data_callback with a batch of the measurement
\* of task t: the callback writes it with the writer it was built over
\* (run.py 110-112), which raises on a closed file.  A sample is named by
\* the measurement that produced it and its rank.
BatchOf(t, k, n) == [meas |-> Handle(t, k), n |-> n]

Deliver(t) ==
    /\ mainpc = "gather"
    /\ tasks[t].pc = "measuring"
    /\ batches > 0
    /\ batches' = batches - 1
    /\ LET k    == Len(tasks[t].files)
           cb   == new_data_callback[managers[assignments[t].ch]]
           told == [tasks EXCEPT ![t].sent[k] = @ + 1]
           data == BatchOf(t, k, tasks[t].sent[k] + 1)
       IN  tasks' = IF told[cb[1]].files[cb[2]].open
                    THEN [told EXCEPT ![cb[1]].files[cb[2]].rows =
                                          Append(@, data)]
                    ELSE told
    /\ UNCHANGED <<devices, plan_paths, ch_input, session_file, mainpc,
                   available, channels, assignments, existing, all_meas,
                   managers, connected, disconnected, saved,
                   new_data_callback,
                   now, ticks>>

\* a second goes by on the clock datetime.now() reads (run.py 93)
Tick ==
    /\ mainpc = "gather"
    /\ ticks > 0
    /\ now' = now + 1
    /\ ticks' = ticks - 1
    /\ UNCHANGED <<devices, plan_paths, ch_input, session_file, mainpc,
                   available, channels, assignments, existing, all_meas,
                   managers, connected, disconnected, tasks, saved,
                   new_data_callback, batches>>

\* all_meas = all_meas + [meas]: a new list bound to the local name, the
\* list main saves left as it was
ListAppendLost(list, x) == list

\* all_meas.append(meas)  (run.py 117)
ListAppend(list, x) == Append(list, x)

\* a run_one that returns after the append, the log never written
CompletedNoLog(task, ch, run) ==
    [task EXCEPT !.results = SetLast(@, "ok"),
                 !.files = CloseLast(@)]

\* run_one after the await: the with block is left and the log written
\* (run.py 117-135)
Completed(task, ch, run) ==
    [task EXCEPT !.results = SetLast(@, "ok"),
                 !.files = CloseLast(@),
                 !.logs = Append(@, RunLog(ch, run))]

\* mgr.measure completes: the handle is appended, the log written, and the
\* task goes on to its next await (run.py 115-135, then the loops)
MeasureDone(t, io) ==
    /\ mainpc = "gather"
    /\ tasks[t].pc = "measuring"
    /\ LET R == Runs(t) IN
       /\ io => Len(tasks[t].results) < Len(R.runs)
       /\ all_meas' = ListAppend(all_meas, Handle(t, Len(tasks[t].results)))
       /\ tasks' = [tasks EXCEPT ![t] =
                      Begin(Completed(@, assignments[t].ch,
                                      R.runs[Len(@.results)]),
                            R, io)]
       /\ new_data_callback' = Register(t, tasks[t], R, io)
       /\ assignments' = [assignments EXCEPT ![t].plan =
                            PlanNow(@, R.runs, Len(tasks'[t].results),
                                    tasks'[t].pc = "finished")]
    /\ UNCHANGED <<devices, plan_paths, ch_input, session_file, mainpc,
                   available, channels, existing, managers,
                   connected, disconnected, saved, batches,
                   now, ticks>>

\* a handler that would swallow the error and go on with the next run
MeasureFailContinue(t) ==
    /\ mainpc = "gather"
    /\ tasks[t].pc = "measuring"
    /\ LET R == Runs(t) IN
       /\ tasks' = [tasks EXCEPT ![t] =
                      Begin([@ EXCEPT !.results = SetLast(@, "error"),
                                      !.files = CloseLast(@)],
                            R, FALSE)]
       /\ new_data_callback' = Register(t, tasks[t], R, FALSE)
       /\ assignments' = [assignments EXCEPT ![t].plan =
                            PlanNow(@, R.runs, Len(tasks'[t].results),
                                    tasks'[t].pc = "finished")]
    /\ UNCHANGED <<devices, plan_paths, ch_input, session_file, mainpc,
                   available, channels, existing, all_meas,
                   managers, connected, disconnected, saved, batches,
                   now, ticks>>

\* mgr.measure raises: nothing catches it in run_one or run_channel, the
\* with block closes the data file and the task ends with the exception
MeasureFail(t) ==
    /\ mainpc = "gather"
    /\ tasks[t].pc = "measuring"
    /\ tasks' = [tasks EXCEPT ![t] =
                   [@ EXCEPT !.pc = "failed", !.exc = "DeviceError",
                             !.results = SetLast(@, "error"),
                             !.files = CloseLast(@)]]
    /\ UNCHANGED <<devices, plan_paths, ch_input, session_file, mainpc,
                   available, channels, assignments, existing, all_meas,
                   managers, connected, disconnected, saved,
                   new_data_callback, batches,
                   now, ticks>>

\* asyncio.run cancels what is still running when main ends by an exception
Cancel(task) ==
    IF task.pc = "measuring"
    THEN [task EXCEPT !.pc = "cancelled", !.exc = "CancelledError",
                      !.results = SetLast(@, "cancelled"),
                      !.files = CloseLast(@)]
    ELSE IF task.pc = "created"
    THEN [task EXCEPT !.pc = "cancelled", !.exc = "CancelledError"]
    ELSE task

\* gather without return_exceptions: the first exception of a task is
\* raised in main, which has no handler (run.py 371, 381)
GatherRaise ==
    /\ mainpc = "gather"
    /\ \E t \in DOMAIN tasks : tasks[t].pc = "failed"
    /\ mainpc' = "gather_raised"
    /\ tasks' = [t \in DOMAIN tasks |-> Cancel(tasks[t])]
    /\ UNCHANGED <<devices, plan_paths, ch_input, session_file, available,
                   channels, assignments, existing, all_meas, managers,
                   connected, disconnected, saved,
                   new_data_callback, batches,
                   now, ticks>>

\* a wait that returns as soon as one task returned
GatherFirstDone ==
    /\ mainpc = "gather"
    /\ \E t \in DOMAIN tasks : tasks[t].pc = "finished"
    /\ \A t \in DOMAIN tasks : tasks[t].pc # "failed"
    /\ mainpc' = "disconnect"
    /\ UNCHANGED <<devices, plan_paths, ch_input, session_file, available,
                   channels, assignments, existing, all_meas, managers,
                   connected, disconnected, tasks, saved,
                   new_data_callback, batches,
                   now, ticks>>

\* every task returned
GatherDone ==
    /\ mainpc = "gather"
    /\ \A t \in DOMAIN tasks : tasks[t].pc = "finished"
    /\ mainpc' = "disconnect"
    /\ UNCHANGED <<devices, plan_paths, ch_input, session_file, available,
                   channels, assignments, existing, all_meas, managers,
                   connected, disconnected, tasks, saved,
                   new_data_callback, batches,
                   now, ticks>>

\* one of the mgr.disconnect() of run.py 374-375
Disconnect(m) ==
    /\ mainpc = "disconnect"
    /\ m \in Range(managers) \ disconnected
    /\ disconnected' = disconnected \cup {m}
    /\ UNCHANGED <<devices, plan_paths, ch_input, session_file, mainpc,
                   available, channels, assignments, existing, all_meas,
                   managers, connected, tasks, saved,
                   new_data_callback, batches,
                   now, ticks>>

\* save_session_file(session_file, all_measurements)  (run.py 376)
SaveSession ==
    /\ mainpc = "disconnect"
    /\ Range(managers) \subseteq disconnected
    /\ session_file' = [exists |-> TRUE, records |-> all_meas]
    /\ saved' = saved + 1
    /\ mainpc' = "done"
    /\ UNCHANGED <<devices, plan_paths, ch_input, available, channels,
                   assignments, existing, all_meas, managers, connected,
                   disconnected, tasks,
                   new_data_callback, batches,
                   now, ticks>>

Next ==
    \/ DiscoverOk
    \/ DiscoverTimeout
    \/ SelectChannels
    \/ \E idx \in 0..(Len(plan_paths) - 1), conc \in Concs : AssignPlan(idx, conc)
    \/ LoadExisting
    \/ ConnectNext
    \/ ConnectFail
    \/ Gather
    \/ \E t \in DOMAIN tasks, io \in BOOLEAN : TaskStart(t, io)
    \/ \E t \in DOMAIN tasks, io \in BOOLEAN : MeasureDone(t, io)
    \/ \E t \in DOMAIN tasks : MeasureFail(t)
    \/ \E t \in DOMAIN tasks : Deliver(t)
    \/ Tick
    \/ GatherRaise
    \/ GatherDone
    \/ \E m \in Range(managers) : Disconnect(m)
    \/ SaveSession

Spec == Init /\ [][Next]_vars

SpecExpand == InitExpand /\ [][Next]_vars

\* the orchestrator on the plans of three steps
SpecSequence == InitSequence /\ [][Next]_vars

SpecStream == (InitStream \/ InitClock) /\ [][Next]_vars

\* the orchestrator on the plans the builder writes
SpecBuilder == (InitBuilder \/ InitStream \/ InitClock) /\ [][Next]_vars

\* the next step of channel task b when nothing fails: the event loop runs
\* it, or its measurement completes
TaskStep(b) ==
    /\ b \in DOMAIN tasks
    /\ TaskStart(b, FALSE) \/ MeasureDone(b, FALSE)

\* the event loop runs every task that is ready and the measurements of
\* the second task complete; nothing is assumed of the first task
SpecOther ==
    /\ InitStream \/ InitClock
    /\ [][Next]_vars
    /\ WF_vars(TaskStep(2))

\* asyncio.wait_for(..., timeout) ends the await of the discovery, with the
\* list or with TimeoutError (run.py 48-51)
SpecDiscover ==
    /\ InitStream \/ InitClock
    /\ [][Next]_vars
    /\ WF_vars(DiscoverOk \/ DiscoverTimeout)

\* the next statement of main when nothing fails: main is one coroutine,
\* and its await of gather ends once every task returned or one raised
MainStep ==
    \/ DiscoverOk
    \/ SelectChannels
    \/ \E idx \in 0..(Len(plan_paths) - 1), conc \in Concs : AssignPlan(idx, conc)
    \/ LoadExisting
    \/ ConnectNext
    \/ Gather
    \/ GatherRaise
    \/ GatherDone
    \/ \E m \in Range(managers) : Disconnect(m)
    \/ SaveSession

\* the event loop runs main and every task that is ready, and every
\* connection and measurement that is awaited completes (asyncio.run,
\* run.py 362-377)
SpecFair ==
    /\ InitStream \/ InitClock \/ InitUnknown
    /\ [][Next]_vars
    /\ WF_vars(MainStep)
    /\ \A b \in 1..MaxSelect : WF_vars(TaskStep(b))

(***************************************************************************)
(* Properties.                                                             *)
(***************************************************************************)
Ended == mainpc \in {"done", "gather_raised"}

Ch(t) == assignments[t].ch

\* the runs task t has started so far, in the order it started them
Started(t) == SubSeq(Runs(t).runs, 1, Len(tasks[t].results))

RunFailed(t) == tasks[t].exc \in {"DeviceError", "OSError"}

\* C1: no two runs on the same channel are in flight at the same time,
\* whatever channel selection main accepted (a repeated index included).
C1_NoOverlapOnChannel ==
    \A a, b \in DOMAIN tasks :
        (a # b /\ Ch(a) = Ch(b))
            => ~(tasks[a].pc = "measuring" /\ tasks[b].pc = "measuring")

\* C2: once connect_channels has completed, main does not end before a
\* disconnect was issued on the manager of every channel, also when a
\* channel task raised.
C2_DisconnectEveryChannel ==
    Ended => \A ch \in DOMAIN managers : managers[ch] \in disconnected

\* C3: once the channel tasks were started, main does not end before the
\* session file was written with every handle collected, also when a
\* channel task raised.
C3_SessionAlwaysSaved ==
    Ended => (saved >= 1 /\ session_file.exists
              /\ session_file.records = all_meas)

\* C4: when a run on channel A failed, every task of another channel B has,
\* by the time main ends, executed all runs of its plan.
C4_OtherChannelsComplete ==
    Ended =>
        \A a, b \in DOMAIN tasks :
            (tasks[a].exc = "DeviceError" /\ Ch(a) # Ch(b) /\ ~RunFailed(b))
                => /\ tasks[b].pc = "finished"
                   /\ Len(tasks[b].results) = Len(Runs(b).runs)

\* C5: fail-fast per channel task: a run that failed (device error or file
\* error) is the last run its task started, and the task has ended.
C5_FailFast ==
    \A t \in DOMAIN tasks :
        \A k \in 1..Len(tasks[t].results) :
            tasks[t].results[k] \in {"error", "ioerror"}
                => (k = Len(tasks[t].results) /\ tasks[t].pc = "failed")

\* a first run failed in its measurement while its plan had a later run
C5_Witness ==
    \E t \in DOMAIN tasks :
        /\ tasks[t].results = <<"error">>
        /\ Len(Runs(t).runs) > 1
        /\ mainpc = "gather_raised"

Count(seq, x) == Cardinality({i \in DOMAIN seq : seq[i] = x})

\* what the saved file holds after the records that were loaded at start
NewRecords ==
    SubSeq(session_file.records, Len(existing) + 1, Len(session_file.records))

TotalRuns ==
    LET RECURSIVE Sum(_)
        Sum(t) == IF t = 0 THEN 0 ELSE Len(Runs(t).runs) + Sum(t - 1)
    IN Sum(Len(tasks))

\* C6: when the channel tasks all completed, the saved session holds exactly
\* one handle per run of every task, whatever the interleaving of the runs.
C6_SessionHoldsEveryRunOnce ==
    mainpc = "done" =>
        /\ \A t \in DOMAIN tasks :
              \A k \in 1..Len(Runs(t).runs) :
                  Count(NewRecords, Handle(t, k)) = 1
        /\ Len(NewRecords) = TotalRuns

\* two channels, and the task launched second delivered a handle before the
\* task launched first delivered its last one
C6_Witness ==
    /\ mainpc = "done"
    /\ \E a, b \in DOMAIN tasks :
          /\ a < b /\ Ch(a) # Ch(b)
          /\ \E i, j \in DOMAIN NewRecords :
                i < j /\ NewRecords[i].task = b /\ NewRecords[j].task = a

\* C7: the records written are the records loaded at start (none when the
\* file is missing) followed by the new handles, none of them twice.
C7_SaveKeepsLoadedRecords ==
    /\ mainpc \in {"connect", "gather", "disconnect"} =>
          existing = (IF session_file.exists THEN session_file.records
                      ELSE <<>>)
    /\ mainpc = "done" =>
          /\ Len(session_file.records) >= Len(existing)
          /\ SubSeq(session_file.records, 1, Len(existing)) = existing
          /\ \A i, j \in DOMAIN NewRecords :
                NewRecords[i] = NewRecords[j] => i = j
          /\ \A i \in DOMAIN NewRecords :
                /\ NewRecords[i].task \in DOMAIN tasks
                /\ tasks[NewRecords[i].task].results[NewRecords[i].run] = "ok"

\* a session file with records was loaded, and new handles were saved after
C7_Witness ==
    /\ mainpc = "done"
    /\ existing # <<>>
    /\ Len(session_file.records) > Len(existing)

\* the steps of the plan of task t, as run_channel numbers them
Steps(t) == assignments[t].plan["sequence"]

\* those of the runs st that belong to step s
OfStep(st, s) == SelectSeq(st, LAMBDA r : r.step = s)

StartedOfStep(t, s) == OfStep(Started(t), s)

Reps(step) == IF "repeats" \in DOMAIN step THEN step["repeats"] ELSE 1

\* C8: a step of type single with repeats r >= 1 yields exactly r runs with
\* identical params (the step's params when the method is not MSA), repeat
\* index 1..r in order, titles {method}_step{stepIndex}_run{i}.
C8_SingleExpansion ==
    \A t \in DOMAIN tasks :
        tasks[t].pc = "finished" =>
            \A s \in DOMAIN Steps(t) :
                LET step == Steps(t)[s]
                    rs   == StartedOfStep(t, s)
                IN  (Branch(step) = "single" /\ Reps(step) >= 1)
                    => /\ Len(rs) = Reps(step)
                       /\ \A i \in DOMAIN rs :
                             /\ rs[i].rep = i
                             /\ rs[i].params = rs[1].params
                             /\ step["method"] # "MSA"
                                   => rs[i].params = step["params"]
                             /\ rs[i].title =
                                   Lower(step["method"]) \o "_step"
                                   \o ToString(s) \o "_run" \o ToString(i)

\* a single step with repeats of at least two ran to its end
C8_Witness ==
    \E t \in DOMAIN tasks :
        /\ tasks[t].pc = "finished"
        /\ \E s \in DOMAIN Steps(t) :
              /\ Branch(Steps(t)[s]) = "single"
              /\ Reps(Steps(t)[s]) >= 2
              /\ Len(StartedOfStep(t, s)) = Reps(Steps(t)[s])

\* C9: a non-MSA sweep step with values v1..vn and repeats r >= 1 yields
\* n*r runs in the order (v1,1)..(v1,r),(v2,1)..; the params of a run are
\* base_params with sweep_param set to the run's value; its title is
\* {method}_{sweep_param}{v}_run{i}.
C9_SweepExpansion ==
    \A t \in DOMAIN tasks :
        tasks[t].pc = "finished" =>
            \A s \in DOMAIN Steps(t) :
                LET step == Steps(t)[s]
                    rs   == StartedOfStep(t, s)
                    r    == Reps(step)
                IN  (Branch(step) = "sweep" /\ step["method"] # "MSA" /\ r >= 1)
                    => LET vals == step["sweep_values"]
                           sp   == step["sweep_param"]
                           base == step["base_params"]
                       IN  /\ Len(rs) = Len(vals) * r
                           /\ \A v \in DOMAIN vals : \A i \in 1..r :
                                 LET run == rs[(v - 1) * r + i]
                                 IN  /\ run.rep = i
                                     /\ DOMAIN run.params = DOMAIN base \cup {sp}
                                     /\ run.params[sp] = vals[v]
                                     /\ \A k \in DOMAIN base \ {sp} :
                                           run.params[k] = base[k]
                                     /\ run.title =
                                           Lower(step["method"]) \o "_" \o sp
                                           \o ToString(vals[v]) \o "_run"
                                           \o ToString(i)

\* a sweep over two different values, repeated, ran to its end
C9_Witness ==
    \E t \in DOMAIN tasks :
        /\ tasks[t].pc = "finished"
        /\ \E s \in DOMAIN Steps(t) :
              LET step == Steps(t)[s]
              IN  /\ Branch(step) = "sweep"
                  /\ step["method"] # "MSA"
                  /\ Reps(step) >= 2
                  /\ Len(step["sweep_values"]) >= 2
                  /\ step["sweep_values"][1] # step["sweep_values"][2]
                  /\ Len(StartedOfStep(t, s))
                        = Len(step["sweep_values"]) * Reps(step)

\* C10: in an MSA level sweep with level_index k, every run differs from
\* base_params at most in the targeted field(s) of levels[k] (level when
\* sweep_potential, duration when sweep_duration).
C10_LevelSweepFrame ==
    \A t \in DOMAIN tasks :
        \A s \in DOMAIN Steps(t) :
            LET step == Steps(t)[s]
                rs   == StartedOfStep(t, s)
            IN  Branch(step) = "level" =>
                  \A i \in DOMAIN rs :
                    LET base == step["base_params"]
                        lv   == base["levels"]
                        p    == PyIndex(Len(lv), step["level_index"])
                        raw  == rs[i].params["_raw_levels"]
                        mat  == rs[i].params["levels"]
                    IN  /\ DOMAIN rs[i].params = DOMAIN base \cup {"_raw_levels"}
                        /\ \A k \in DOMAIN base \ {"levels"} :
                              rs[i].params[k] = base[k]
                        /\ Len(raw) = Len(lv) /\ Len(mat) = Len(lv)
                        /\ \A j \in DOMAIN lv :
                              /\ j # p =>
                                   /\ raw[j] = lv[j]
                                   /\ mat[j] = <<"MSALevel", lv[j].level,
                                                 lv[j].duration>>
                              /\ ~Truthy(step, "sweep_potential") =>
                                   /\ raw[j].level = lv[j].level
                                   /\ mat[j][2] = lv[j].level
                              /\ ~Truthy(step, "sweep_duration") =>
                                   /\ raw[j].duration = lv[j].duration
                                   /\ mat[j][3] = lv[j].duration

\* a level sweep of the potential alone started a run whose level k differs
\* from base_params
C10_Witness ==
    \E t \in DOMAIN tasks : \E s \in DOMAIN Steps(t) :
        LET step == Steps(t)[s]
            rs   == StartedOfStep(t, s)
        IN  /\ Branch(step) = "level"
            /\ Truthy(step, "sweep_potential")
            /\ ~Truthy(step, "sweep_duration")
            /\ Len(rs) >= 2
            /\ rs[Len(rs)].params["_raw_levels"] # step["base_params"]["levels"]

\* the step whose expansion raised in run_channel of task t, 0 when none did
ErrStep(t) ==
    LET bad == {s \in DOMAIN Steps(t) : StepRuns(s, Steps(t)[s]).err # "none"}
    IN  IF bad = {} THEN 0 ELSE CHOOSE s \in bad : \A x \in bad : s <= x

\* the runs the loops of run_channel yield for step s of task t
RunsOfStep(t, s) == StepRuns(s, Steps(t)[s]).runs

\* a sweep step that has the fields its branch reads and no value to sweep
EmptySweep(step) ==
    /\ Branch(step) \in {"sweep", "level"}
    /\ Branch(step) = "sweep" => "sweep_param" \in DOMAIN step
    /\ Branch(step) = "level" => "level_index" \in DOMAIN step
    /\ "sweep_values" \in DOMAIN step
    /\ step["sweep_values"] = <<>>

\* C11: a sweep step with empty sweep_values, generic or MSA level sweep,
\* starts no run and raises nothing, and the task goes on: when it finished,
\* every run of the steps after it was started.
C11_EmptySweepYieldsNothing ==
    \A t \in DOMAIN tasks :
        \A s \in DOMAIN Steps(t) :
            EmptySweep(Steps(t)[s]) =>
                /\ StartedOfStep(t, s) = <<>>
                /\ ErrStep(t) # s
                /\ tasks[t].exc \notin {"ValueError", "IndexError"}
                /\ tasks[t].pc = "finished" =>
                      \A s2 \in DOMAIN Steps(t) :
                          s2 > s => StartedOfStep(t, s2) = RunsOfStep(t, s2)

\* a task went past an MSA level sweep without values and completed the run
\* of the step after it
C11_Witness ==
    \E t \in DOMAIN tasks : \E s \in DOMAIN Steps(t) :
        /\ EmptySweep(Steps(t)[s])
        /\ Branch(Steps(t)[s]) = "level"
        /\ s < Len(Steps(t))
        /\ tasks[t].pc = "finished"
        /\ Len(StartedOfStep(t, s + 1)) >= 1

\* an MSA level sweep with the fields run_channel reads, a value to sweep
\* and something to set it in
LevelSweep(step) ==
    /\ Branch(step) = "level"
    /\ "level_index" \in DOMAIN step
    /\ "sweep_values" \in DOMAIN step
    /\ step["sweep_values"] # <<>>
    /\ "levels" \in DOMAIN step["base_params"]
    /\ Truthy(step, "sweep_potential") \/ Truthy(step, "sweep_duration")

OutOfRange(step) ==
    \/ step["level_index"] >= Len(step["base_params"]["levels"])
    \/ step["level_index"] < 0

\* run_channel of task t is over, by return or by an exception of its own
Expanded(t) ==
    /\ tasks[t].pc \in {"finished", "failed"}
    /\ tasks[t].exc \notin {"DeviceError", "OSError"}

\* C12: an MSA level sweep (with a value to sweep) fails in expansion if and
\* only if level_index >= len(levels) or level_index < 0: with such an index
\* no run of the step is started, and with a valid index the expansion of
\* the step raises nothing.
C12_InvalidSweepTargetIff ==
    \A t \in DOMAIN tasks :
        \A s \in DOMAIN Steps(t) :
            (LevelSweep(Steps(t)[s]) /\ Expanded(t)) =>
                /\ OutOfRange(Steps(t)[s]) => StartedOfStep(t, s) = <<>>
                /\ (ErrStep(t) = s) <=> OutOfRange(Steps(t)[s])

\* C13: a step whose repeats is less than 1 fails in expansion instead of
\* silently yielding zero runs: once run_channel is over, an exception was
\* raised at that step (or at a step before it).
C13_InvalidRepeatCount ==
    \A t \in DOMAIN tasks :
        \A s \in DOMAIN Steps(t) :
            (Branch(Steps(t)[s]) # "skip" /\ Reps(Steps(t)[s]) < 1
                /\ Expanded(t))
                => ErrStep(t) \in 1..s

UnknownType(step) == Get(step, "type", "single") \notin {"single", "sweep"}

\* the runs of task t were started step after step
InStepOrder(t) ==
    LET st == Started(t)
    IN  \A i, j \in DOMAIN st : i < j => st[i].step <= st[j].step

\* C14: a step whose type is neither single nor sweep starts no run and
\* raises nothing; the other steps of the plan are executed in order, all of
\* their runs started once the task finished.
C14_UnknownTypeSkipped ==
    \A t \in DOMAIN tasks :
        \A s \in DOMAIN Steps(t) :
            UnknownType(Steps(t)[s]) =>
                /\ StartedOfStep(t, s) = <<>>
                /\ ErrStep(t) # s
                /\ InStepOrder(t)
                /\ tasks[t].pc = "failed" => RunFailed(t)
                /\ tasks[t].pc = "finished" =>
                      \A s2 \in DOMAIN Steps(t) \ {s} :
                          StartedOfStep(t, s2) = RunsOfStep(t, s2)

\* a task finished a plan whose second step has an unknown type, with a run
\* of the step before it and a run of the step after it
C14_Witness ==
    \E t \in DOMAIN tasks :
        /\ Len(Steps(t)) = 3
        /\ UnknownType(Steps(t)[2])
        /\ tasks[t].pc = "finished"
        /\ tasks[t].results = <<"ok", "ok">>
        /\ Started(t)[1].step = 1
        /\ Started(t)[2].step = 3

\* run_channel of task t is over and none of its runs failed
OverWithoutRunFailure(t) ==
    /\ tasks[t].pc \in {"finished", "failed"}
    /\ \A k \in DOMAIN tasks[t].results : tasks[t].results[k] = "ok"

\* C15: an exception raised while expanding one step skips that step only:
\* when run_channel is over and no run failed, every run of every step that
\* expands without an exception was executed.
C15_ExpansionErrorIsolated ==
    \A t \in DOMAIN tasks :
        OverWithoutRunFailure(t) =>
            \A s \in DOMAIN Steps(t) :
                StepRuns(s, Steps(t)[s]).err = "none"
                    => StartedOfStep(t, s) = RunsOfStep(t, s)

\* a plan with a step whose method or type is not one the program knows
Malformed(plan) ==
    \E s \in DOMAIN plan["sequence"] :
        \/ plan["sequence"][s]["method"] \notin METHOD_FUNC_MAP
        \/ UnknownType(plan["sequence"][s])

\* C16: a plan with an unknown method or type is refused when it is loaded:
\* once such a plan is assigned to a channel, no channel is ever connected,
\* no data file created and no run started.
C16_MalformedPlanRefused ==
    (\E i \in DOMAIN assignments : Malformed(assignments[i].plan)) =>
        /\ connected = {}
        /\ \A t \in DOMAIN tasks :
              tasks[t].files = <<>> /\ tasks[t].results = <<>>

\* C17: the phases of main are ordered: a task has started a run only on a
\* channel whose manager is connected (and tasks exist only once every
\* selected channel is connected), a manager is disconnected only when every
\* channel task has finished, and the session is saved only when every
\* manager has been disconnected.
C17_PhasesOrdered ==
    /\ tasks # <<>> => Cardinality(connected) = Len(channels)
    /\ \A t \in DOMAIN tasks :
          tasks[t].results # <<>> =>
              /\ Ch(t) \in DOMAIN managers
              /\ managers[Ch(t)] \in connected
    /\ disconnected # {} =>
          \A t \in DOMAIN tasks : tasks[t].pc = "finished"
    /\ saved >= 1 => disconnected = Range(managers)

\* two channel tasks ran, both managers were disconnected and the session
\* was saved
C17_Witness ==
    /\ saved = 1
    /\ Cardinality(disconnected) = 2
    /\ Len(tasks) = 2
    /\ \A t \in DOMAIN tasks : tasks[t].results # <<>>

\* the sweep value and the repeat index of the j-th run of a step with
\* repeats r, when the loop over the values is the outer one
ValueAt(step, j) == step["sweep_values"][((j - 1) \div Reps(step)) + 1]
RepeatAt(step, j) == ((j - 1) % Reps(step)) + 1

\* C18: the runs a task started follow the plan: by step in sequence
\* order, within a sweep step by value in the given order, within a value by
\* repeat index 1..r; and every run but the last one started has completed,
\* with its data file closed and its log written, in the same order.
C18_RunsInPlanOrder ==
    \A t \in DOMAIN tasks :
        LET st == Started(t)
        IN  /\ \A i, j \in DOMAIN st : i < j => st[i].step <= st[j].step
            /\ \A s \in DOMAIN Steps(t) :
                  LET step == Steps(t)[s]
                      rs   == OfStep(st, s)
                  IN  \A j \in DOMAIN rs :
                        /\ rs[j].rep = RepeatAt(step, j)
                        /\ Branch(step) = "sweep" =>
                              rs[j].params[step["sweep_param"]] = ValueAt(step, j)
                        /\ Branch(step) = "level" =>
                              rs[j].title = LevelTitle(step["method"],
                                                       step["level_index"],
                                                       ValueAt(step, j),
                                                       RepeatAt(step, j))
            /\ \A k \in DOMAIN tasks[t].results :
                  k < Len(tasks[t].results) =>
                      /\ tasks[t].results[k] = "ok"
                      /\ ~tasks[t].files[k].open
                      /\ k \in DOMAIN tasks[t].logs
                      /\ tasks[t].logs[k].title = st[k].title

\* a task went through a single step, a sweep of two values with two repeats
\* each, and a third step: six runs, the last one in flight
C18_Witness ==
    \E t \in DOMAIN tasks :
        /\ Len(Steps(t)) = 3
        /\ Branch(Steps(t)[2]) = "sweep"
        /\ Len(StartedOfStep(t, 2)) = 4
        /\ StartedOfStep(t, 2)[2].params # StartedOfStep(t, 2)[3].params
        /\ Len(tasks[t].results) = 6
        /\ tasks[t].pc = "measuring"
        /\ Len(tasks[t].logs) = 5

\* C19: every batch the device delivered during a measurement was written
\* to the data file of that run when it was delivered: at every moment each
\* data file holds its header and exactly the batches delivered for its run
\* so far, in the order of delivery.
C19_SamplesStreamedToOwnSink ==
    \A t \in DOMAIN tasks :
        \A k \in DOMAIN tasks[t].files :
            /\ tasks[t].files[k].header = Header(Started(t)[k].method)
            /\ tasks[t].files[k].rows =
                  [n \in 1..tasks[t].sent[k] |-> BatchOf(t, k, n)]

\* the callback of the manager of task t feeds run k of t, or was registered
\* again since by another task of the same channel
CallbackOf(t, k) ==
    LET m == managers[Ch(t)]
    IN  /\ m \in DOMAIN new_data_callback
        /\ \/ new_data_callback[m] = <<t, k>>
           \/ /\ new_data_callback[m][1] # t
              /\ Ch(new_data_callback[m][1]) = Ch(t)

\* C20: within a run, the data file is open with its header written and the
\* sample callback registered while the measurement is in flight, with no
\* log and no handle yet; the log is written and the handle appended once
\* the measurement completed, and only then: a run that failed or was
\* cancelled has neither.
C20_RunEventOrder ==
    \A t \in DOMAIN tasks :
        \A k \in DOMAIN tasks[t].results :
            LET res == tasks[t].results[k]
            IN  /\ res = "inflight" =>
                      /\ k \in DOMAIN tasks[t].files
                      /\ tasks[t].files[k].open
                      /\ tasks[t].files[k].header = Header(Started(t)[k].method)
                      /\ CallbackOf(t, k)
                /\ res = "ok" =>
                      /\ k \in DOMAIN tasks[t].logs
                      /\ tasks[t].logs[k] = RunLog(Ch(t), Started(t)[k])
                      /\ Count(all_meas, Handle(t, k)) = 1
                      /\ ~tasks[t].files[k].open
                /\ res # "ok" =>
                      /\ k \notin DOMAIN tasks[t].logs
                      /\ Count(all_meas, Handle(t, k)) = 0

\* a task completed its first run and its second measurement failed: one
\* log, one handle, two data files
C20_Witness ==
    \E t \in DOMAIN tasks :
        /\ tasks[t].results = <<"ok", "error">>
        /\ Len(tasks[t].logs) = 1
        /\ Len(tasks[t].files) = 2
        /\ Count(all_meas, Handle(t, 1)) = 1
        /\ Count(all_meas, Handle(t, 2)) = 0

\* the output path of the k-th run task t started
PathOf(t, k) ==
    Fname(Ch(t), Started(t)[k].method, Started(t)[k].conc,
          tasks[t].files[k].timestamp, Started(t)[k].title)

\* the runs that completed, as pairs of task and position
CompletedRuns ==
    {tk \in UNION {{<<t, k>> : k \in DOMAIN tasks[t].results} :
                      t \in DOMAIN tasks} :
        tasks[tk[1]].results[tk[2]] = "ok"}

\* C21: two distinct completed runs never have the same output path,
\* whatever the seconds at which they started, so N completed runs leave N
\* data files and N logs.  Runs of two tasks of one channel index are left
\* out: that two such tasks exist is C1's matter.
C21_OutputPathsDistinct ==
    \A a, b \in CompletedRuns :
        (a # b /\ (a[1] = b[1] \/ Ch(a[1]) # Ch(b[1])))
            => PathOf(a[1], a[2]) # PathOf(b[1], b[2])

\* discover_instruments returned None (an integer and a string are compared
\* through their printed forms)
NoInstrumentList == ToString(available) = ToString(None)

\* C22: discovery does not hang and its failure ends main: main leaves the
\* await of discover_instruments, and whenever discovery gave no instrument
\* list main is at the await or has returned, with no channel connected, no
\* task created and the session file not written.
C22_DiscoveryTimeoutEndsMain ==
    /\ (mainpc = "discover") ~> (mainpc # "discover")
    /\ [](NoInstrumentList =>
            /\ mainpc \in {"discover", "returned"}
            /\ connected = {}
            /\ tasks = <<>>
            /\ saved = 0
            /\ ~session_file.exists)

\* discovery timed out with instruments attached and main returned
C22_Witness ==
    /\ devices >= 1
    /\ NoInstrumentList
    /\ mainpc = "returned"

\* C23: a measurement in flight blocks only its own task: while a task
\* awaits a measurement, the next step of every other task that has not
\* ended is enabled; and the second of two tasks ends (its runs completed,
\* unless a run failed or main was left by an exception) even when the first
\* never gets out of a measurement.
C23_OtherChannelsProceed ==
    /\ [](\A a, b \in DOMAIN tasks :
            (a # b /\ mainpc = "gather" /\ tasks[a].pc = "measuring"
                   /\ tasks[b].pc \in {"created", "measuring"})
                => ENABLED TaskStep(b))
    /\ (mainpc = "gather" /\ Len(tasks) = 2)
          ~> /\ Len(tasks) = 2
             /\ \/ tasks[2].pc = "finished" /\ Started(2) = Runs(2).runs
                \/ tasks[2].pc = "failed"
                \/ mainpc = "gather_raised"

\* the second task completed both runs of its plan while the first task is
\* still in its first measurement
C23_Witness ==
    /\ Len(tasks) = 2
    /\ mainpc = "gather"
    /\ tasks[1].pc = "measuring"
    /\ tasks[1].results = <<"inflight">>
    /\ tasks[2].pc = "finished"
    /\ tasks[2].results = <<"ok", "ok">>
    /\ Ch(1) # Ch(2)

\* the params object handed to the k-th of the runs st that task t started,
\* as the objects have it now: after the params of later values were built
\* and after the logs of the runs that were handed the same object were
\* written.  The runs of one sweep value (of one single step) are handed
\* the same object, so it was logged once the first of them completed.
ParamsNow(t, st, k) ==
    LET seq   == Steps(t)
        run   == st[k]
        s     == run.step
        step  == seq[s]
        j     == Cardinality({i \in 1..k : st[i].step = s})
        w     == ((j - 1) \div Reps(step)) + 1
        first == k - ((j - 1) % Reps(step))
        v     == BuiltIn(st, step, s, Len(st), tasks[t].pc = "finished")
        lh    == LevelHeap(step, v)
        obj   == IF Branch(step) = "level"
                 THEN DictSet(run.params, "_raw_levels",
                              [i \in 1..Len(step["base_params"]["levels"]) |->
                                  lh[RawName(step, w, i)]])
                 ELSE IF Branch(step) = "sweep"
                 THEN SweepHeap(step, v)[DictOf(1, w + 1)]
                 ELSE run.params
    IN  IF tasks[t].results[first] = "ok"
        THEN LogHeap(run.method, obj)[1]
        ELSE obj

\* C24: expansion is pure: the plan of a task is still the plan that was
\* loaded and tagged, every step of it unchanged by the runs, and the params
\* object handed to a run is still what it was when the run started, also
\* after the params of later sweep values were built and the logs written.
C24_ExpansionIsPure ==
    \A t \in DOMAIN tasks :
        /\ \E i \in DOMAIN plan_paths, conc \in Concs :
              assignments[t].plan = TagPlan(plan_paths[i], conc)
        /\ LET st == Started(t)
           IN  \A k \in DOMAIN st : ParamsNow(t, st, k) = st[k].params

\* a task finished a level sweep of the potential over two values: the
\* params of the second value were built after the runs of the first
C24_Witness ==
    \E t \in DOMAIN tasks : \E s \in DOMAIN Steps(t) :
        /\ Branch(Steps(t)[s]) = "level"
        /\ Truthy(Steps(t)[s], "sweep_potential")
        /\ tasks[t].pc = "finished"
        /\ Len(Steps(t)[s]["sweep_values"]) = 2
        /\ Len(StartedOfStep(t, s)) >= 2
        /\ \A k \in DOMAIN tasks[t].results : tasks[t].results[k] = "ok"

\* a step of type sweep and method MSA with the base_params every sweep reads
MsaSweep(step) ==
    /\ Get(step, "type", "single") = "sweep"
    /\ step["method"] = "MSA"
    /\ "base_params" \in DOMAIN step

\* C25: every step of type sweep and method MSA is expanded by the
\* level-sweep rule, whatever other fields it carries: once run_channel is
\* over and no earlier step raised, the step raised exactly when the level
\* rule does, and otherwise its runs are the runs of the level rule (one per
\* value and repeat, titled {method}_lvl{level_index+1}_{v}_run{i}), never
\* those of the generic single-parameter rule.
C25_MsaSweepByLevelRule ==
    \A t \in DOMAIN tasks :
        \A s \in DOMAIN Steps(t) :
            LET step == Steps(t)[s]
                want == LevelSweepRuns(s, step)
            IN  (MsaSweep(step) /\ Expanded(t)
                    /\ (ErrStep(t) = 0 \/ ErrStep(t) >= s))
                => /\ (ErrStep(t) = s) <=> (want.err # "none")
                   /\ want.err = "none" => StartedOfStep(t, s) = want.runs

\* a connection or a run failed: connect raised, a measurement raised, or
\* the data file of a run could not be opened
ConnectOrRunError ==
    \/ mainpc = "connect_raised"
    \/ \E t \in DOMAIN tasks : RunFailed(t)

\* main returned after the save, with every channel runner at the end of its
\* sequence and the manager of every selected channel disconnected
Terminated ==
    /\ mainpc = "done"
    /\ \A t \in DOMAIN tasks : tasks[t].pc = "finished"
    /\ \A i \in DOMAIN channels : managers[channels[i]] \in disconnected
    /\ saved = 1

\* C26: if every connection and every measurement completes without error,
\* the orchestrator terminates: from the connections on, unless a connection
\* or a run fails, main eventually returns with every channel runner
\* finished, every channel disconnected and the session file written once.
C26_OrchestratorTerminates ==
    (mainpc = "connect") ~> (ConnectOrRunError \/ Terminated)

\* C27: a sample delivered on a channel goes to the data file of the run
\* that is measuring on that channel and to no other: no data file holds a
\* sample of another run (of the same or another channel), and while a run
\* is measuring, the callback registered on its manager writes to that
\* run's file, which is open.
C27_SampleToCurrentRunOnly ==
    \A t \in DOMAIN tasks :
        /\ \A k \in DOMAIN tasks[t].files :
              \A i \in DOMAIN tasks[t].files[k].rows :
                  tasks[t].files[k].rows[i].meas = Handle(t, k)
        /\ tasks[t].pc = "measuring" =>
              LET cb == new_data_callback[managers[Ch(t)]]
              IN  /\ cb = <<t, Len(tasks[t].files)>>
                  /\ tasks[cb[1]].files[cb[2]].open

\* C28: no connection is leaked on a successful run: when main returned
\* after the save, the managers that were disconnected are exactly the
\* managers on which connect completed, whatever channel selection main
\* accepted (a repeated index included).
C28_NoConnectionLeaked ==
    mainpc = "done" => disconnected = connected

\* C29: every step build_step produces carries the fields run_channel reads
\* for its type and method, so that run_channel never fails on a missing
\* field: once run_channel is over, no task of a built plan ended with a
\* KeyError and every sweep step of it has sweep_values, also an MSA sweep
\* built with no to both "sweep potential" and "sweep duration".
C29_BuiltStepsComplete ==
    \A t \in DOMAIN tasks :
        Expanded(t) =>
            /\ tasks[t].exc # "KeyError"
            /\ \A s \in DOMAIN Steps(t) :
                  Get(Steps(t)[s], "type", "single") = "sweep"
                     => "sweep_values" \in DOMAIN Steps(t)[s]

====
